---- MODULE Spec2Model ----
(***************************************************************************)
(* VaaS backend: the Express handlers of vaas/src/server.ts (second half   *)
(* of the file, the version with persistence) and the JSON file store of   *)
(* vaas/src/storage.ts.                                                    *)
(*                                                                         *)
(* Node runs every handler on one thread: the code between two awaits is   *)
(* one atomic step.  An action below is therefore either the arrival of a  *)
(* request (the handler up to its first await) or the completion of one    *)
(* outbound call (the continuation of the handler up to its next await).   *)
(***************************************************************************)
EXTENDS Integers, Sequences, FiniteSets, TLC

VARIABLES
  reqs,       \* slot -> the request being handled there (handler locals + call history)
  cache,      \* storage.ts `cache`: its own properties, in insertion order
  proto,      \* storage.ts `cache`: its prototype, <<>> for Object.prototype, <<e>> once replaced
  file,       \* data/aesthetics.json
  clock,      \* new Date()
  lastSave,   \* history: name -> the embedding of the latest saveAesthetic(name, _) of this process
  remaining,  \* requests the clients will still send
  loaded,     \* history: data/aesthetics.json as init() found it
  ui          \* components/VibeTransform.tsx: the component's state, localStorage, Date.now()

vars == <<reqs, cache, proto, file, clock, lastSave, remaining, loaded, ui>>

-----------------------------------------------------------------------------
(* Bounds of the model *)

MaxImages == 4
MaxUrls == 4
MaxReqs == 2

-----------------------------------------------------------------------------
(* JavaScript values *)

\* `undefined` (an absent JSON field, a missing property)
Undefined == "<undefined>"

\* JS truthiness of a string-or-undefined value
Truthy(s) == s # Undefined /\ s # ""

\* a ?? b
Coalesce(a, b) == IF a = Undefined THEN b ELSE a

Min(a, b) == IF a <= b THEN a ELSE b

Range(s) == {s[i] : i \in DOMAIN s}

\* [a, a+1, ..., b] as a sequence
Interval(a, b) == [k \in 1..(b - a + 1) |-> a + k - 1]

-----------------------------------------------------------------------------
(* storage.ts *)

\* names a client may use; two of them are properties every JS object inherits
PlainNames == {"x"}
BuiltinNames == {"constructor"}
ProtoName == "__proto__"
Names == PlainNames \cup BuiltinNames \cup {ProtoName}
\* fields of a SavedEntry, visible through the prototype chain once the prototype is an entry
EntryFields == {"name", "embedding", "created"}

SavedEntry(name, embedding, created) ==
  [name |-> name, embedding |-> embedding, created |-> created]

\* the contents of data/aesthetics.json
NoFile == [kind |-> "absent"]
JsonFile(props) == [kind |-> "json", data |-> props]
CorruptFile == [kind |-> "corrupt"]

\* own properties of the cache object
HasOwn(c, name) == \E i \in DOMAIN c : c[i].key = name
OwnValue(c, name) == c[CHOOSE i \in DOMAIN c : c[i].key = name].value

\* what a property read yields
JsUndefined == [t |-> "undefined"]
JsEntry(e) == [t |-> "entry", entry |-> e]
JsBuiltin == [t |-> "builtin"]
JsString(s) == [t |-> "string", s |-> s]

JsTruthy(v) ==
  CASE v.t = "undefined" -> FALSE
    [] v.t = "entry" -> TRUE
    [] v.t = "builtin" -> TRUE
    [] v.t = "string" -> v.s # ""

\* v.embedding
EmbeddingOf(v) == IF v.t = "entry" THEN v.entry.embedding ELSE Undefined

\* cache[name]: own property, else the prototype chain (the prototype object
\* itself for "__proto__")
GetProp(c, p, name) ==
  IF name = ProtoName
    THEN (IF p = <<>> THEN JsBuiltin ELSE JsEntry(p[1]))
  ELSE IF HasOwn(c, name) THEN JsEntry(OwnValue(c, name))
  ELSE IF p # <<>> /\ name \in EntryFields
    THEN (IF name = "created" THEN JsString("iso-time") ELSE JsString(p[1][name]))
  ELSE IF name \in BuiltinNames THEN JsBuiltin
  ELSE JsUndefined

\* (mutant) an existing property is not overwritten
SetOwnKeepFirst(c, name, e) ==
  IF HasOwn(c, name) THEN c ELSE Append(c, [key |-> name, value |-> e])

\* (mutant) the assignment drops the other properties
SetOwnAlone(c, name, e) == <<[key |-> name, value |-> e]>>

\* cache[name] = entry on own properties: overwrite in place, or append
SetOwn(c, name, e) ==
  IF HasOwn(c, name)
    THEN [i \in DOMAIN c |-> IF c[i].key = name THEN [key |-> name, value |-> e] ELSE c[i]]
    ELSE Append(c, [key |-> name, value |-> e])

\* cache[name] = entry: assigning "__proto__" replaces the prototype instead
\* of creating a property
SetPropCache(c, name, e) == IF name = ProtoName THEN c ELSE SetOwn(c, name, e)
SetPropProto(p, name, e) == IF name = ProtoName THEN <<e>> ELSE p

\* getAesthetic(name)
getAesthetic(c, p, name) == GetProp(c, p, name)

\* listAesthetics(): Object.values(cache), own enumerable properties only
listAesthetics(c) == [i \in DOMAIN c |-> c[i].value]

\* JSON.stringify(cache): own enumerable properties only
Stringify(c) == JsonFile(c)

\* JSON.parse(raw) of a file written by persist
Parse(f) == f.data

\* persist(): writeFileSync either replaces the file, or throws leaving the
\* old file or a truncated one
WriteOutcomes == {"ok", "fail-untouched", "fail-truncated"}
persist(c, f, w) ==
  CASE w = "ok" -> Stringify(c)
    [] w = "fail-untouched" -> f
    [] w = "fail-truncated" -> CorruptFile

\* (mutant) a file that cannot be parsed still yields a record
initSalvage(f) ==
  IF f.kind = "json" THEN Parse(f)
  ELSE IF f.kind = "corrupt" THEN <<[key |-> "x", value |-> SavedEntry("x", "a", 0)]>>
  ELSE <<>>

\* init(): the cache at startup
init(f) == IF f.kind = "json" THEN Parse(f) ELSE <<>>

-----------------------------------------------------------------------------
(* Request bodies and the values the outside world produces *)

None == [has |-> FALSE]
Some(v) == [has |-> TRUE, v |-> v]

\* items of a mood request; an image or url is identified by its payload
TextItem(j) == <<"text", j>>
\* what the model answers for an image or a page (whatever string that is)
ImageDescription(img) == <<"image", img>>
UrlDescription(url) == <<"url", url>>
\* the empty string among descriptions
Blank == <<>>

\* absent, or a list of the first k of the items, for the given lengths k
OptList(lens, items) == {None} \cup {Some(SubSeq(items, 1, k)) : k \in lens}

\* the bodies of POST /api/mood (MoodRequestBody) with lists of the given lengths
MoodBodies(textLens, imageLens, urlLens, names) ==
  [texts : OptList(textLens, [j \in 1..2 |-> TextItem(j)]),
   images : OptList(imageLens, Interval(1, MaxImages)),
   urls : OptList(urlLens, Interval(1, MaxUrls)),
   name : names]

\* an HTML document: its length and what the two regular expressions of
\* /api/transform-url find in it
Doc(len, head, base) == [len |-> len, head |-> head, base |-> base]
EmptyDoc == Doc(0, FALSE, FALSE)
\* the length of a page longer than every limit of the program
LongPage == 30000

\* texts the synthesis call can return: (content ?? "").trim()
SynthTexts == {"", "a", "b"}
\* texts the rewrite call can return
RewriteTexts == {"", "<html>styled</html>"}

-----------------------------------------------------------------------------
(* server.ts: a request being handled *)

MAX_PARALLEL == 3
MAX_PARALLEL_URL == 3
HtmlCap == 20000
UrlHtmlCap == 15000
BaseTagLen == 26

Idle ==
  [kind |-> "none", body |-> None, pc |-> "idle", arrived |-> 0,
   descriptions |-> <<>>, next |-> 0, chunks |-> <<>>, settled |-> <<>>,
   imgCall |-> <<>>, urlCall |-> <<>>, urlPage |-> <<>>, urlHtml |-> <<>>,
   html |-> EmptyDoc, aestheticText |-> Undefined,
   imgBatches |-> 0, urlBatches |-> 0, reordered |-> FALSE,
   log |-> <<>>, sent |-> <<>>]

NumImages(body) == IF body.images.has THEN Len(body.images.v) ELSE 0
NumUrls(body) == IF body.urls.has THEN Len(body.urls.v) ELSE 0

NewMood(body) ==
  [Idle EXCEPT !.kind = "mood", !.body = body, !.pc = "start",
     !.imgCall = [i \in 1..NumImages(body) |-> "none"],
     !.urlCall = [i \in 1..NumUrls(body) |-> "none"],
     !.urlPage = [i \in 1..NumUrls(body) |-> EmptyDoc],
     !.urlHtml = [i \in 1..NumUrls(body) |-> EmptyDoc]]

NewReq(kind, body) == [Idle EXCEPT !.kind = kind, !.body = body, !.pc = "start"]

\* calls of this request that have been issued and have not returned
InFlightImages(q) == {i \in DOMAIN q.imgCall : q.imgCall[i] = "pending"}
InFlightUrls(q) == {i \in DOMAIN q.urlCall : q.urlCall[i] \in {"fetch", "model"}}
Quiet(q) == InFlightImages(q) = {} /\ InFlightUrls(q) = {}

\* res.status(s).json(b): the handler returns
Respond(q, resp) == [q EXCEPT !.pc = "done", !.sent = Append(@, resp)]

\* html.slice(0, cap)
Slice(doc, cap) == [doc EXCEPT !.len = Min(@, cap)]

\* (mutant) the values in the order in which the promises settled
PromiseAllByCompletion(promises, settled, value) ==
  [k \in DOMAIN settled |-> value[settled[k]]]

\* await Promise.all(promises): the values in the order of the array, not of completion
PromiseAll(promises, settled, value) == [k \in DOMAIN promises |-> value[promises[k]]]

\* (mutant) no filtering: a failed url leaves its empty string in the list
FilterNothing(results) == results

\* results.filter(Boolean)
FilterBoolean(results) == SelectSeq(results, LAMBDA d : d # Blank)

\* generateAestheticEmbedding(descriptions), up to its await
CallSynth(q) ==
  [q EXCEPT !.pc = "synth",
     !.log = Append(@, [op |-> "synthesize", arg |-> q.descriptions])]

\* the url loop from `bucket = []` to the next `await Promise.all(bucket)`
IssueUrlBatch(q) ==
  LET last == Min(q.next + MAX_PARALLEL_URL, NumUrls(q.body))
      bucket == Interval(q.next + 1, last)
  IN [q EXCEPT !.pc = "urls", !.chunks = bucket, !.settled = <<>>, !.next = last,
        !.urlBatches = @ + 1,
        !.urlCall = [i \in DOMAIN @ |-> IF i \in Range(bucket) THEN "fetch" ELSE @[i]],
        !.log = @ \o [k \in DOMAIN bucket |->
                        [op |-> "fetch", arg |-> q.body.urls.v[bucket[k]],
                         idx |-> bucket[k], batch |-> q.urlBatches + 1]]]

\* if (body.urls?.length) { ... }
StartUrls(q) ==
  IF NumUrls(q.body) > 0 THEN IssueUrlBatch([q EXCEPT !.next = 0]) ELSE CallSynth(q)

\* the value describeUrl(url) resolved to
UrlResult(q, i) == IF q.urlCall[i] = "ok" THEN UrlDescription(q.body.urls.v[i]) ELSE Blank

\* after `await Promise.all(bucket)`: push the non-empty results, go on with the loop
AfterUrlBatch(q) ==
  LET results == PromiseAll(q.chunks, q.settled, [i \in Range(q.chunks) |-> UrlResult(q, i)])
      q1 == [q EXCEPT !.descriptions = @ \o FilterBoolean(results),
                      !.chunks = <<>>, !.settled = <<>>]
  IN IF q1.next < NumUrls(q1.body) THEN IssueUrlBatch(q1) ELSE CallSynth(q1)

\* (mutant) no limit: every remaining image is described at once
IssueAllImages(q) ==
  LET last == NumImages(q.body)
      batch == Interval(q.next + 1, last)
  IN [q EXCEPT !.pc = "images", !.chunks = batch, !.settled = <<>>, !.next = last,
        !.imgBatches = @ + 1,
        !.imgCall = [i \in DOMAIN @ |-> IF i \in Range(batch) THEN "pending" ELSE @[i]],
        !.log = @ \o [k \in DOMAIN batch |->
                        [op |-> "describeImage", arg |-> q.body.images.v[batch[k]],
                         idx |-> batch[k], batch |-> q.imgBatches + 1]]]

\* the image loop from `chunks.length = 0` to the next `await Promise.all(chunks)`
IssueImageBatch(q) ==
  LET last == Min(q.next + MAX_PARALLEL, NumImages(q.body))
      batch == Interval(q.next + 1, last)
  IN [q EXCEPT !.pc = "images", !.chunks = batch, !.settled = <<>>, !.next = last,
        !.imgBatches = @ + 1,
        !.imgCall = [i \in DOMAIN @ |-> IF i \in Range(batch) THEN "pending" ELSE @[i]],
        !.log = @ \o [k \in DOMAIN batch |->
                        [op |-> "describeImage", arg |-> q.body.images.v[batch[k]],
                         idx |-> batch[k], batch |-> q.imgBatches + 1]]]

\* if (body.images?.length) { ... }
StartImages(q) ==
  IF NumImages(q.body) > 0 THEN IssueImageBatch(q) ELSE StartUrls(q)

\* after `await Promise.all(chunks)`: push the results, go on with the loop
AfterImageBatch(q) ==
  LET batchResults ==
        PromiseAll(q.chunks, q.settled,
                   [i \in Range(q.chunks) |-> ImageDescription(q.body.images.v[i])])
      q1 == [q EXCEPT !.descriptions = @ \o batchResults,
                      !.chunks = <<>>, !.settled = <<>>]
  IN IF q1.next < NumImages(q1.body) THEN IssueImageBatch(q1) ELSE StartUrls(q1)

\* (mutant) no validation
MoodInputAccepted(body) == FALSE

\* if (!body.texts && !body.images && !body.urls): an empty array is truthy
MoodInputMissing(body) == ~body.texts.has /\ ~body.images.has /\ ~body.urls.has

\* if (body.texts?.length) descriptions.push(...body.texts)
PushTexts(q) ==
  IF q.body.texts.has /\ Len(q.body.texts.v) > 0
    THEN [q EXCEPT !.descriptions = @ \o q.body.texts.v]
    ELSE q

\* POST /api/mood up to its first await
MoodStart(body) ==
  IF MoodInputMissing(body)
    THEN Respond(NewMood(body), [status |-> 400, error |-> "Provide texts, images or urls."])
    ELSE StartImages(PushTexts(NewMood(body)))

\* (mutant) a save over an existing record keeps the old embedding
saveAestheticMixed(c, name, embedding, now) ==
  SetPropCache(c, name,
               SavedEntry(name, IF HasOwn(c, name) THEN OwnValue(c, name).embedding ELSE embedding,
                          now))

\* saveAesthetic(name, embedding): the assignment to cache[name]
saveAestheticCache(c, name, embedding, now) ==
  SetPropCache(c, name, SavedEntry(name, embedding, now))
saveAestheticProto(p, name, embedding, now) ==
  SetPropProto(p, name, SavedEntry(name, embedding, now))

\* (mutant) every mood request saves
MoodSavesAlways(body) == TRUE

\* if (body.name): the mood handler saves
MoodSaves(body) == Truthy(body.name)

\* res.json({ aesthetic_embedding: aestheticText, saved_as: body.name ?? undefined })
MoodResponse(body, aestheticText) ==
  [status |-> 200, aesthetic_embedding |-> aestheticText,
   saved_as |-> Coalesce(body.name, Undefined)]

\* the catch blocks: res.status(500).json({ error: err?.message || ... }), the
\* message being that of the call that threw
ErrorResponse(thrownBy) == [status |-> 500, error |-> thrownBy]

\* applyAestheticToHtml(html, aesthetic), up to its await
CallRewrite(q, html, aesthetic) ==
  [q EXCEPT !.pc = "rewrite", !.html = html, !.aestheticText = aesthetic,
     !.log = Append(@, [op |-> "rewrite", html |-> Slice(html, HtmlCap),
                        aesthetic |-> aesthetic])]

\* (mutant) only the html is required
TransformHtmlMissing(body) == ~body.html.has \/ body.html.v.len = 0

\* if (!body?.html || !body?.aesthetic)
TransformInputMissing(body) ==
  ~body.html.has \/ body.html.v.len = 0 \/ ~Truthy(body.aesthetic)

\* POST /api/transform up to its first await
TransformStart(body) ==
  IF TransformInputMissing(body)
    THEN Respond(NewReq("transform", body),
                 [status |-> 400, error |-> "Provide 'html' and 'aesthetic' fields."])
    ELSE CallRewrite(NewReq("transform", body), body.html.v, body.aesthetic)

\* (mutant) only the url is required
TransformUrlOnlyUrl(body) == ~Truthy(body.url)

\* if (!body?.url || (!body.aesthetic && !body.aesthetic_name))
TransformUrlInputMissing(body) ==
  ~Truthy(body.url) \/ (~Truthy(body.aesthetic) /\ ~Truthy(body.aesthetic_name))

\* POST /api/transform-url up to its first await: the page fetch
TransformUrlStart(body) ==
  IF TransformUrlInputMissing(body)
    THEN Respond(NewReq("transformUrl", body),
                 [status |-> 400,
                  error |-> "Provide 'url' and either 'aesthetic' or 'aesthetic_name'."])
    ELSE [NewReq("transformUrl", body) EXCEPT !.pc = "fetch",
            !.log = Append(@, [op |-> "fetch", arg |-> body.url, idx |-> 0, batch |-> 0])]

\* the <base> injection: only into a document with a head and no base
InjectBase(page) ==
  IF page.head /\ ~page.base
    THEN [page EXCEPT !.len = @ + BaseTagLen, !.base = TRUE]
    ELSE page

\* POST /api/transform-url after the page has arrived, up to the next await
TransformUrlResolve(q, page, c, p) ==
  LET html == InjectBase(page)
      inline == Coalesce(q.body.aesthetic, "")
      saved == getAesthetic(c, p, q.body.aesthetic_name)
      q1 == [q EXCEPT !.log = Append(@, [op |-> "getAesthetic",
                                         name |-> q.body.aesthetic_name, result |-> saved])]
  IN IF ~Truthy(inline) /\ Truthy(q.body.aesthetic_name)
       THEN IF ~JsTruthy(saved)
              THEN Respond(q1, [status |-> 404, error |-> "aesthetic_name not found"])
              ELSE CallRewrite(q1, html, EmbeddingOf(saved))
       ELSE CallRewrite(q, html, inline)

\* GET /api/aesthetic/:name
GetResponse(c, p, name) ==
  LET entry == getAesthetic(c, p, name)
  IN IF ~JsTruthy(entry)
       THEN [status |-> 404, error |-> "Not found"]
       ELSE [status |-> 200, value |-> entry]

\* GET /api/aesthetics
ListResponse(c) == [status |-> 200, data |-> listAesthetics(c)]

-----------------------------------------------------------------------------
(* components/VibeTransform.tsx *)

MaxAttempts == 3
MaxTicks == 2

\* Date.now() when the page is opened
Time0 == 35

\* n.toString(36), as the sequence of its digits
RECURSIVE ToString36(_)
ToString36(n) == IF n < 36 THEN <<n>> ELSE ToString36(n \div 36) \o <<n % 36>>

\* the pages /api/transform-url returns to the component
PreviewHtmls == {"<html>one</html>", "<html>two</html>"}
SavedLists == {<<>>, <<"x">>}
UrlInputs == {"", "  ", "http://site"}

\* url.trim()
Trim(u) == IF u = "  " THEN "" ELSE u

\* localStorage: setItem and getItem on a set of [key, value] items
SetItem(st, key, value) == {e \in st : e.key # key} \cup {[key |-> key, value |-> value]}
GetItem(st, key) ==
  IF \E e \in st : e.key = key THEN Some((CHOOSE e \in st : e.key = key).value) ELSE None

\* the component after its first render; `last` is history: the outcome of
\* the latest finished attempt
Mounted ==
  [url |-> "", savedList |-> <<>>, selectedAesthetic |-> "",
   loading |-> FALSE, error |-> None, htmlOut |-> None, previewId |-> None,
   storage |-> {}, now |-> Time0, pc |-> "idle", attempts |-> 0, last |-> None]

ServerUnchanged == UNCHANGED <<reqs, cache, proto, file, clock, lastSave, remaining, loaded>>

\* onChange of the url input
SetUrl(u) ==
  /\ ui' = [ui EXCEPT !.url = u]
  /\ ServerUnchanged

\* fetchList: GET /api/aesthetics answered
ListFetched(list) ==
  /\ ui' = [ui EXCEPT !.savedList = list]
  /\ ServerUnchanged

\* onClick of a saved aesthetic
SelectAesthetic(k) ==
  /\ k \in DOMAIN ui.savedList
  /\ ui' = [ui EXCEPT !.selectedAesthetic = ui.savedList[k]]
  /\ ServerUnchanged

\* time passes
Tick ==
  /\ ui.now < Time0 + MaxTicks
  /\ ui' = [ui EXCEPT !.now = @ + 1]
  /\ ServerUnchanged

\* the catch and finally of handleTransform
AttemptFailed(u, message) ==
  [u EXCEPT !.error = Some(message), !.loading = FALSE, !.pc = "idle",
            !.last = Some([ok |-> FALSE])]

\* handleTransform up to its first await; the button is disabled while
\* loading or without a selection
ClickTransform ==
  /\ ~ui.loading /\ ui.selectedAesthetic # "" /\ ui.savedList # <<>>
  /\ ui.pc = "idle"
  /\ ui.attempts < MaxAttempts
  /\ LET u == [ui EXCEPT !.error = None, !.loading = TRUE, !.htmlOut = None,
                         !.attempts = @ + 1]
     IN ui' = IF Trim(ui.url) = ""
                THEN AttemptFailed(u, "URL is required")
                ELSE [u EXCEPT !.pc = "fetch"]
  /\ ServerUnchanged

\* the request fails: fetch throws, the response is not ok, or its body is
\* not JSON
TransformFailed ==
  /\ ui.pc = "fetch"
  /\ ui' = AttemptFailed(ui, "Failed")
  /\ ServerUnchanged

\* the response is ok: show the html, store it under a fresh id; a throwing
\* localStorage.setItem is ignored
TransformSucceeded(html, stored) ==
  /\ ui.pc = "fetch"
  /\ LET id == ToString36(ui.now)
         u == [ui EXCEPT !.htmlOut = Some(html), !.loading = FALSE, !.pc = "idle",
                         !.last = Some([ok |-> TRUE, html |-> html])]
     IN ui' = IF stored
                THEN [u EXCEPT !.storage = SetItem(@, id, html), !.previewId = Some(id)]
                ELSE u
  /\ ServerUnchanged

-----------------------------------------------------------------------------
(* Actions *)

\* a slot takes a new request once its previous one is answered and has
\* nothing in flight
CanArrive(r) ==
  /\ remaining > 0
  /\ reqs[r].pc \in {"idle", "done"}
  /\ Quiet(reqs[r])

StoreUnchanged == UNCHANGED <<cache, proto, file, clock, lastSave, loaded, ui>>

\* history: the position of a request in the order of arrival
Stamp(q) == [q EXCEPT !.arrived = MaxReqs - remaining + 1]

MoodArrive(r, body) ==
  /\ CanArrive(r)
  /\ reqs' = [reqs EXCEPT ![r] = Stamp(MoodStart(body))]
  /\ remaining' = remaining - 1
  /\ StoreUnchanged

\* history: call i returns while a call issued before it is still running
Overtakes(q, i) ==
  \E j \in 1..(i - 1) : j \in InFlightImages(q) \cup InFlightUrls(q)

\* (mutant) the handler goes on as soon as one promise is fulfilled
BatchRaced(q) == Len(q.settled) >= 1

\* every promise of the awaited array is fulfilled
BatchSettled(q) == Len(q.settled) = Len(q.chunks)

\* describeImage returns
ImageOk(r, i) ==
  /\ i \in InFlightImages(reqs[r])
  /\ LET awaited == reqs[r].pc = "images"
         q == [reqs[r] EXCEPT !.imgCall[i] = "ok",
                              !.settled = IF awaited THEN Append(@, i) ELSE @,
                              !.reordered = @ \/ (awaited /\ Overtakes(reqs[r], i))]
     IN reqs' = [reqs EXCEPT ![r] =
                   IF awaited /\ BatchSettled(q) THEN AfterImageBatch(q) ELSE q]
  /\ UNCHANGED <<cache, proto, file, clock, lastSave, remaining, loaded, ui>>

\* (mutant) a failed image description is tolerated like a failed url
ImageFailTolerated(r, i) ==
  /\ i \in InFlightImages(reqs[r])
  /\ LET awaited == reqs[r].pc = "images"
         q == [reqs[r] EXCEPT !.imgCall[i] = "failed",
                              !.settled = IF awaited THEN Append(@, i) ELSE @]
     IN reqs' = [reqs EXCEPT ![r] =
                   IF awaited /\ BatchSettled(q) THEN AfterImageBatch(q) ELSE q]
  /\ UNCHANGED <<cache, proto, file, clock, lastSave, remaining, loaded, ui>>

\* describeImage throws: Promise.all rejects at once and the handler's catch answers
ImageFail(r, i) ==
  /\ i \in InFlightImages(reqs[r])
  /\ LET awaited == reqs[r].pc = "images"
         q == [reqs[r] EXCEPT !.imgCall[i] = "failed"]
     IN reqs' = [reqs EXCEPT ![r] =
                   IF awaited THEN Respond(q, ErrorResponse("describeImage")) ELSE q]
  /\ UNCHANGED <<cache, proto, file, clock, lastSave, remaining, loaded, ui>>

\* describeUrl: the page arrives and is sent to the model
UrlFetched(r, i, page) ==
  /\ i \in DOMAIN reqs[r].urlCall
  /\ reqs[r].urlCall[i] = "fetch"
  /\ reqs' = [reqs EXCEPT ![r].urlCall[i] = "model",
                          ![r].urlPage[i] = page,
                          ![r].urlHtml[i] = Slice(page, UrlHtmlCap)]
  /\ UNCHANGED <<cache, proto, file, clock, lastSave, remaining, loaded, ui>>

\* describeUrl returns: "ok" with a description, "blank" with empty content,
\* "failed" after its catch (fetch error, non-OK status, model error)
UrlReturns(r, i, from, outcome) ==
  /\ i \in DOMAIN reqs[r].urlCall
  /\ reqs[r].urlCall[i] = from
  /\ LET q == [reqs[r] EXCEPT !.urlCall[i] = outcome, !.settled = Append(@, i),
                              !.reordered = @ \/ Overtakes(reqs[r], i)]
     IN reqs' = [reqs EXCEPT ![r] = IF BatchSettled(q) THEN AfterUrlBatch(q) ELSE q]
  /\ UNCHANGED <<cache, proto, file, clock, lastSave, remaining, loaded, ui>>

UrlFetchFail(r, i) == UrlReturns(r, i, "fetch", "failed")
UrlDescribed(r, i, outcome) == UrlReturns(r, i, "model", outcome)

\* (mutant) a failed file write fails the request
SynthOkStrict(r, text, w) ==
  /\ reqs[r].pc = "synth"
  /\ LET body == reqs[r].body
         saves == MoodSaves(body)
         c1 == saveAestheticCache(cache, body.name, text, clock)
         q == IF saves
                THEN [reqs[r] EXCEPT !.log = Append(@, [op |-> "save", name |-> body.name,
                                                        embedding |-> text, write |-> w])]
                ELSE reqs[r]
     IN /\ saves \/ w = "ok"
        /\ cache' = IF saves THEN c1 ELSE cache
        /\ proto' = IF saves THEN saveAestheticProto(proto, body.name, text, clock) ELSE proto
        /\ file' = IF saves THEN persist(c1, file, w) ELSE file
        /\ clock' = IF saves THEN clock + 1 ELSE clock
        /\ lastSave' = IF saves THEN [lastSave EXCEPT ![body.name] = text] ELSE lastSave
        /\ reqs' = [reqs EXCEPT ![r] =
                      IF saves /\ w # "ok"
                        THEN Respond(q, ErrorResponse("save"))
                        ELSE Respond(q, MoodResponse(body, text))]
  /\ UNCHANGED <<remaining, loaded, ui>>

\* generateAestheticEmbedding returns: save if named, answer 200
SynthOk(r, text, w) ==
  /\ reqs[r].pc = "synth"
  /\ LET body == reqs[r].body
         saves == MoodSaves(body)
         c1 == saveAestheticCache(cache, body.name, text, clock)
         q == IF saves
                THEN [reqs[r] EXCEPT !.log = Append(@, [op |-> "save", name |-> body.name,
                                                        embedding |-> text, write |-> w])]
                ELSE reqs[r]
     IN /\ saves \/ w = "ok"
        /\ cache' = IF saves THEN c1 ELSE cache
        /\ proto' = IF saves THEN saveAestheticProto(proto, body.name, text, clock) ELSE proto
        /\ file' = IF saves THEN persist(c1, file, w) ELSE file
        /\ clock' = IF saves THEN clock + 1 ELSE clock
        /\ lastSave' = IF saves THEN [lastSave EXCEPT ![body.name] = text] ELSE lastSave
        /\ reqs' = [reqs EXCEPT ![r] = Respond(q, MoodResponse(body, text))]
  /\ UNCHANGED <<remaining, loaded, ui>>

\* (mutant) a failed synthesis is tried again
SynthFailRetry(r) ==
  /\ reqs[r].pc = "synth"
  /\ reqs' = [reqs EXCEPT ![r] = CallSynth(@)]
  /\ UNCHANGED <<cache, proto, file, clock, lastSave, remaining, loaded, ui>>

\* (mutant) the error of the synthesis call is swallowed without an answer
SynthFailSilent(r) ==
  /\ reqs[r].pc = "synth"
  /\ reqs' = [reqs EXCEPT ![r].pc = "failed"]
  /\ UNCHANGED <<cache, proto, file, clock, lastSave, remaining, loaded, ui>>

\* generateAestheticEmbedding throws
SynthFail(r) ==
  /\ reqs[r].pc = "synth"
  /\ reqs' = [reqs EXCEPT ![r] = Respond(@, ErrorResponse("synthesize"))]
  /\ UNCHANGED <<cache, proto, file, clock, lastSave, remaining, loaded, ui>>

TransformArrive(r, body) ==
  /\ CanArrive(r)
  /\ reqs' = [reqs EXCEPT ![r] = Stamp(TransformStart(body))]
  /\ remaining' = remaining - 1
  /\ StoreUnchanged

TransformUrlArrive(r, body) ==
  /\ CanArrive(r)
  /\ reqs' = [reqs EXCEPT ![r] = Stamp(TransformUrlStart(body))]
  /\ remaining' = remaining - 1
  /\ StoreUnchanged

\* fetch(body.url) returns an OK response
PageFetched(r, page) ==
  /\ reqs[r].pc = "fetch"
  /\ reqs' = [reqs EXCEPT ![r] = TransformUrlResolve(@, page, cache, proto)]
  /\ UNCHANGED <<cache, proto, file, clock, lastSave, remaining, loaded, ui>>

\* fetch(body.url) throws or the response is not OK
PageFetchFail(r) ==
  /\ reqs[r].pc = "fetch"
  /\ reqs' = [reqs EXCEPT ![r] = Respond(@, ErrorResponse("fetch"))]
  /\ UNCHANGED <<cache, proto, file, clock, lastSave, remaining, loaded, ui>>

\* applyAestheticToHtml returns
RewriteOk(r, text) ==
  /\ reqs[r].pc = "rewrite"
  /\ reqs' = [reqs EXCEPT ![r] =
                Respond([@ EXCEPT !.log = Append(@, [op |-> "rewriteResult", value |-> text])],
                        [status |-> 200, html |-> text])]
  /\ UNCHANGED <<cache, proto, file, clock, lastSave, remaining, loaded, ui>>

\* applyAestheticToHtml throws
RewriteFail(r) ==
  /\ reqs[r].pc = "rewrite"
  /\ reqs' = [reqs EXCEPT ![r] = Respond(@, ErrorResponse("rewrite"))]
  /\ UNCHANGED <<cache, proto, file, clock, lastSave, remaining, loaded, ui>>

GetAesthetic(r, name) ==
  /\ CanArrive(r)
  /\ reqs' = [reqs EXCEPT ![r] =
                Stamp(Respond(NewReq("get", Some(name)), GetResponse(cache, proto, name)))]
  /\ remaining' = remaining - 1
  /\ StoreUnchanged

ListAesthetics(r) ==
  /\ CanArrive(r)
  /\ reqs' = [reqs EXCEPT ![r] = Stamp(Respond(NewReq("list", None), ListResponse(cache)))]
  /\ remaining' = remaining - 1
  /\ StoreUnchanged

-----------------------------------------------------------------------------
(* Specifications *)

Slots == DOMAIN reqs

\* what clients send and what the network returns, in the server scenario
ServerMoodBodies == MoodBodies({1}, {1}, {1}, {Undefined, ""} \cup Names)
ServerPages == {Doc(100, FALSE, FALSE), Doc(100, TRUE, FALSE), Doc(LongPage, TRUE, FALSE)}
TransformBodies ==
  [html : {None, Some(EmptyDoc), Some(Doc(100, TRUE, TRUE)), Some(Doc(LongPage, TRUE, TRUE))},
   aesthetic : {Undefined, "", "a"}]
TransformUrlBodies ==
  [url : {Undefined, "", "http://site"},
   aesthetic : {Undefined, "", "a"},
   aesthetic_name : {Undefined, ""} \cup Names]
LookupNames == Names \cup EntryFields \cup {"y"}
InitialFiles ==
  {NoFile, CorruptFile, JsonFile(<<[key |-> "x", value |-> SavedEntry("x", "a", 0)]>>)}

\* what clients send in the pipeline scenario: one mood request of any shape
PipelineMoodBodies == MoodBodies({0, 2}, 0..MaxImages, 0..MaxUrls, {Undefined, "", "x"})
PipelinePages == {Doc(100, TRUE, FALSE)}

\* how a describeUrl call that reached the model ends
UrlOutcomes == {"ok", "blank", "failed"}

\* the server: requests of every kind, one after the other
Init ==
  /\ reqs = [r \in 1..1 |-> Idle]
  /\ file \in InitialFiles
  /\ loaded = file
  /\ cache = init(file)
  /\ proto = <<>>
  /\ clock = 1
  /\ lastSave = [n \in Names |-> Undefined]
  /\ ui = Mounted
  /\ remaining = MaxReqs

Next ==
  \/ \E r \in Slots, body \in ServerMoodBodies : MoodArrive(r, body)
  \/ \E r \in Slots, i \in 1..(MaxImages + 1) : ImageOk(r, i)
  \/ \E r \in Slots, i \in 1..(MaxImages + 1) : ImageFail(r, i)
  \/ \E r \in Slots, i \in 1..(MaxUrls + 1), page \in ServerPages : UrlFetched(r, i, page)
  \/ \E r \in Slots, i \in 1..(MaxUrls + 1) : UrlFetchFail(r, i)
  \/ \E r \in Slots, i \in 1..(MaxUrls + 1), outcome \in UrlOutcomes : UrlDescribed(r, i, outcome)
  \/ \E r \in Slots, text \in SynthTexts, w \in WriteOutcomes : SynthOk(r, text, w)
  \/ \E r \in Slots : SynthFail(r)
  \/ \E r \in Slots, body \in TransformBodies : TransformArrive(r, body)
  \/ \E r \in Slots, body \in TransformUrlBodies : TransformUrlArrive(r, body)
  \/ \E r \in Slots, page \in ServerPages : PageFetched(r, page)
  \/ \E r \in Slots : PageFetchFail(r)
  \/ \E r \in Slots, text \in RewriteTexts : RewriteOk(r, text)
  \/ \E r \in Slots : RewriteFail(r)
  \/ \E r \in Slots, name \in LookupNames : GetAesthetic(r, name)
  \/ \E r \in Slots : ListAesthetics(r)

Spec == Init /\ [][Next]_vars

\* an outbound call of the request in slot r returns or fails
Returns(r) ==
  \/ \E i \in 1..(MaxImages + 1) : ImageOk(r, i) \/ ImageFail(r, i)
  \/ \E i \in 1..(MaxUrls + 1), page \in ServerPages : UrlFetched(r, i, page)
  \/ \E i \in 1..(MaxUrls + 1) : UrlFetchFail(r, i)
  \/ \E i \in 1..(MaxUrls + 1), outcome \in UrlOutcomes : UrlDescribed(r, i, outcome)
  \/ \E text \in SynthTexts, w \in WriteOutcomes : SynthOk(r, text, w)
  \/ SynthFail(r)
  \/ \E page \in ServerPages : PageFetched(r, page)
  \/ PageFetchFail(r)
  \/ \E text \in RewriteTexts : RewriteOk(r, text)
  \/ RewriteFail(r)

\* the server, with every outbound call eventually returning or failing
SpecLive == Spec /\ \A r \in 1..1 : WF_vars(Returns(r))

\* the pipeline: one mood request, followed through its batches
InitMood ==
  /\ reqs = [r \in 1..1 |-> Idle]
  /\ file = NoFile
  /\ loaded = file
  /\ cache = init(file)
  /\ proto = <<>>
  /\ clock = 1
  /\ lastSave = [n \in Names |-> Undefined]
  /\ ui = Mounted
  /\ remaining = 1

NextMood ==
  \/ \E r \in Slots, body \in PipelineMoodBodies : MoodArrive(r, body)
  \/ \E r \in Slots, i \in 1..(MaxImages + 1) : ImageOk(r, i)
  \/ \E r \in Slots, i \in 1..(MaxImages + 1) : ImageFail(r, i)
  \/ \E r \in Slots, i \in 1..(MaxUrls + 1), page \in PipelinePages : UrlFetched(r, i, page)
  \/ \E r \in Slots, i \in 1..(MaxUrls + 1) : UrlFetchFail(r, i)
  \/ \E r \in Slots, i \in 1..(MaxUrls + 1), outcome \in UrlOutcomes : UrlDescribed(r, i, outcome)
  \/ \E r \in Slots, text \in SynthTexts, w \in WriteOutcomes : SynthOk(r, text, w)
  \/ \E r \in Slots : SynthFail(r)

SpecMood == InitMood /\ [][NextMood]_vars

\* what clients send when requests overlap: mood requests with two images
\* and a url, transform requests with a long page
ConcMoodBodies == MoodBodies({}, {2}, {1}, {Undefined} \cup Names)
ConcPages == {Doc(LongPage, TRUE, FALSE)}
ConcTransformBodies == [html : {Some(Doc(LongPage, TRUE, TRUE))}, aesthetic : {"a"}]
ConcSynthTexts == {"a", "b"}

\* the server handling two requests at a time: a request may arrive in one
\* slot while the handler in the other is waiting for a call
InitConc ==
  /\ reqs = [r \in 1..2 |-> Idle]
  /\ file = NoFile
  /\ loaded = file
  /\ cache = init(file)
  /\ proto = <<>>
  /\ clock = 1
  /\ lastSave = [n \in Names |-> Undefined]
  /\ ui = Mounted
  /\ remaining = MaxReqs

NextConc ==
  \/ \E r \in Slots, body \in ConcMoodBodies : MoodArrive(r, body)
  \/ \E r \in Slots, i \in 1..(MaxImages + 1) : ImageOk(r, i)
  \/ \E r \in Slots, i \in 1..(MaxImages + 1) : ImageFail(r, i)
  \/ \E r \in Slots, i \in 1..(MaxUrls + 1), page \in ConcPages : UrlFetched(r, i, page)
  \/ \E r \in Slots, i \in 1..(MaxUrls + 1) : UrlFetchFail(r, i)
  \/ \E r \in Slots, i \in 1..(MaxUrls + 1), outcome \in UrlOutcomes : UrlDescribed(r, i, outcome)
  \/ \E r \in Slots, text \in ConcSynthTexts, w \in WriteOutcomes : SynthOk(r, text, w)
  \/ \E r \in Slots : SynthFail(r)
  \/ \E r \in Slots, body \in ConcTransformBodies : TransformArrive(r, body)
  \/ \E r \in Slots, text \in RewriteTexts : RewriteOk(r, text)
  \/ \E r \in Slots : RewriteFail(r)

SpecConc == InitConc /\ [][NextConc]_vars

\* the component in the browser, the server seen only through its answers
InitUi ==
  /\ reqs = [r \in 1..1 |-> Idle]
  /\ file = NoFile
  /\ loaded = file
  /\ cache = init(file)
  /\ proto = <<>>
  /\ clock = 1
  /\ lastSave = [n \in Names |-> Undefined]
  /\ ui = Mounted
  /\ remaining = 0

NextUi ==
  \/ \E u \in UrlInputs : SetUrl(u)
  \/ \E list \in SavedLists : ListFetched(list)
  \/ \E k \in 1..1 : SelectAesthetic(k)
  \/ Tick
  \/ ClickTransform
  \/ TransformFailed
  \/ \E html \in PreviewHtmls, stored \in BOOLEAN : TransformSucceeded(html, stored)

SpecUi == InitUi /\ [][NextUi]_vars

-----------------------------------------------------------------------------
(* Properties *)

\* the calls of kind `op` a request has issued, in order
Calls(q, op) == SelectSeq(q.log, LAMBDA c : c.op = op)
Called(q, op) == Calls(q, op) # <<>>

\* the only response of an answered request
Answered(q) == q.pc = "done" /\ Len(q.sent) = 1
Status(q) == q.sent[1].status

\* a record has been stored under `name`
Recorded(c, p, name) == HasOwn(c, name) \/ (name = ProtoName /\ p # <<>>)

NumTexts(body) == IF body.texts.has THEN Len(body.texts.v) ELSE 0

\* C1: a transform-url request that names an aesthetic with no saved record
\* (and gives none inline) never fetches the url, never calls the model, and
\* is answered 404.
C1_UnknownNameBeforeFetch ==
  \A r \in Slots :
    LET q == reqs[r]
    IN (/\ q.kind = "transformUrl"
        /\ Truthy(q.body.url)
        /\ ~Truthy(q.body.aesthetic)
        /\ Truthy(q.body.aesthetic_name)
        /\ ~Recorded(cache, proto, q.body.aesthetic_name))
       => /\ ~Called(q, "fetch")
          /\ ~Called(q, "rewrite")
          /\ q.pc = "done" => (Answered(q) /\ Status(q) = 404)

\* C2: a mood request whose texts, images and urls are all absent or empty
\* is answered 400 without any call to the model.
C2_EmptyMoodRejected ==
  \A r \in Slots :
    LET q == reqs[r]
    IN (/\ q.kind = "mood"
        /\ NumTexts(q.body) = 0
        /\ NumImages(q.body) = 0
        /\ NumUrls(q.body) = 0)
       => /\ Answered(q) /\ Status(q) = 400
          /\ q.log = <<>>

\* the batch an item of a list belongs to
BatchOf(i) == (i - 1) \div MAX_PARALLEL + 1

FailedImages(q) == {i \in DOMAIN q.imgCall : q.imgCall[i] = "failed"}
FailedUrls(q) == {i \in DOMAIN q.urlCall : q.urlCall[i] = "failed"}
IssuedImages(q) == {i \in DOMAIN q.imgCall : q.imgCall[i] # "none"}
IssuedUrls(q) == {i \in DOMAIN q.urlCall : q.urlCall[i] # "none"}

StoreEmpty == cache = <<>> /\ proto = <<>> /\ file = NoFile

\* C3: once an image description has failed, the request is answered with
\* one 500 carrying that error, no image of a later batch has been given to
\* the model, no url has been fetched, synthesis is not called and nothing is
\* saved.
C3_ImageFailureAborts ==
  \A r \in Slots :
    LET q == reqs[r]
    IN (q.kind = "mood" /\ FailedImages(q) # {})
       => /\ q.pc = "done"
          /\ q.sent = <<ErrorResponse("describeImage")>>
          /\ \A i \in FailedImages(q), j \in IssuedImages(q) : BatchOf(j) <= BatchOf(i)
          /\ IssuedUrls(q) = {} /\ ~Called(q, "fetch")
          /\ ~Called(q, "synthesize")
          /\ ~Called(q, "save") /\ StoreEmpty

\* an image of the first batch fails in a request that has a second batch,
\* urls and a name
C3_Witness ==
  \E r \in Slots :
    LET q == reqs[r]
    IN /\ q.kind = "mood" /\ q.pc = "done"
       /\ 2 \in FailedImages(q)
       /\ NumImages(q.body) > MAX_PARALLEL
       /\ NumUrls(q.body) > 0
       /\ Truthy(q.body.name)

TextsOf(body) == IF body.texts.has THEN body.texts.v ELSE <<>>
ImageDescriptions(body) ==
  [i \in 1..NumImages(body) |-> ImageDescription(body.images.v[i])]
\* the descriptions of the urls that were described, in submission order
OkUrlDescriptions(q) ==
  LET ok == SelectSeq(Interval(1, NumUrls(q.body)), LAMBDA i : q.urlCall[i] = "ok")
  IN [k \in DOMAIN ok |-> UrlDescription(q.body.urls.v[ok[k]])]

SynthArg(q) == Calls(q, "synthesize")[1].arg

\* C4: a failed url description never fails the request: the request goes on
\* to synthesis and is answered 200 (500 only if synthesis itself throws),
\* and the synthesis input has no entry for the failed url, neither an empty
\* string nor a placeholder: after the texts and the image descriptions it
\* holds the descriptions of the other urls in their order.
C4_UrlFailureTolerated ==
  \A r \in Slots :
    LET q == reqs[r]
        own == NumTexts(q.body) + NumImages(q.body)
    IN (q.kind = "mood" /\ FailedUrls(q) # {})
       => /\ q.pc \in {"urls", "synth", "done"}
          /\ q.pc = "done" =>
               /\ Called(q, "synthesize")
               /\ Answered(q)
               /\ Status(q) = 200 \/ q.sent[1] = ErrorResponse("synthesize")
          /\ Called(q, "synthesize") =>
               /\ \A k \in DOMAIN SynthArg(q) : SynthArg(q)[k] # Blank
               /\ SubSeq(SynthArg(q), own + 1, Len(SynthArg(q))) = OkUrlDescriptions(q)

\* urls fail at the fetch and at the model, a later url is described, and the
\* request is answered 200
C4_Witness ==
  \E r \in Slots :
    LET q == reqs[r]
    IN /\ q.kind = "mood" /\ Answered(q) /\ Status(q) = 200
       /\ NumUrls(q.body) > MAX_PARALLEL_URL
       /\ q.urlCall[1] = "ok" /\ q.urlCall[2] = "failed" /\ q.urlCall[3] = "ok"
       /\ q.urlCall[4] = "failed"
       /\ q.urlHtml[2] = EmptyDoc /\ q.urlHtml[4] # EmptyDoc

\* C5: the list given to synthesis is the texts in request order, then one
\* description per image in submission order, then the non-empty url
\* descriptions in submission order, in whatever order the calls return; a
\* request with texts only makes no image or url call and synthesizes the
\* texts.
C5_SynthesisInput ==
  \A r \in Slots :
    LET q == reqs[r]
    IN q.kind = "mood"
       => /\ Called(q, "synthesize") =>
               SynthArg(q) = TextsOf(q.body) \o ImageDescriptions(q.body) \o OkUrlDescriptions(q)
          /\ (NumImages(q.body) = 0 /\ NumUrls(q.body) = 0) =>
               /\ ~Called(q, "describeImage") /\ ~Called(q, "fetch")
               /\ Called(q, "synthesize") => SynthArg(q) = TextsOf(q.body)

\* synthesis is called after calls returned out of submission order, with
\* texts, two batches of images, and urls of which one gave an empty string
C5_Witness ==
  \E r \in Slots :
    LET q == reqs[r]
    IN /\ q.kind = "mood" /\ Called(q, "synthesize")
       /\ q.reordered
       /\ NumTexts(q.body) > 1
       /\ NumImages(q.body) > MAX_PARALLEL
       /\ NumUrls(q.body) > 1
       /\ q.urlCall[1] = "blank" /\ q.urlCall[2] = "ok"

CeilDiv(n, k) == (n + k - 1) \div k

\* the list indices of the calls of kind `op`, in the order of the calls
CallIndices(q, op) == [k \in DOMAIN Calls(q, op) |-> Calls(q, op)[k].idx]

\* C6: the calls of one kind are issued in input order, in consecutive
\* batches of at most 3 (ceil(n/3) batches for n items); a call of a later
\* batch is issued only when every call of the batches before it has
\* returned; so at most 3 description calls of a request are in flight.
C6_BatchesOfThree ==
  \A r \in Slots :
    LET q == reqs[r]
    IN q.kind = "mood"
       => /\ Cardinality(InFlightImages(q)) + Cardinality(InFlightUrls(q)) <= 3
          /\ CallIndices(q, "describeImage") = Interval(1, Cardinality(IssuedImages(q)))
          /\ CallIndices(q, "fetch") = Interval(1, Cardinality(IssuedUrls(q)))
          /\ \A k \in DOMAIN q.log :
               q.log[k].op \in {"describeImage", "fetch"}
                 => q.log[k].batch = (q.log[k].idx - 1) \div 3 + 1
          /\ \A i \in IssuedImages(q), j \in DOMAIN q.imgCall :
               (j - 1) \div 3 < (i - 1) \div 3 => q.imgCall[j] \in {"ok", "failed"}
          /\ \A i \in IssuedUrls(q), j \in DOMAIN q.urlCall :
               (j - 1) \div 3 < (i - 1) \div 3 => q.urlCall[j] \in {"ok", "blank", "failed"}
          /\ IssuedUrls(q) # {} => InFlightImages(q) = {}
          /\ Called(q, "synthesize") =>
               /\ q.imgBatches = CeilDiv(NumImages(q.body), 3)
               /\ q.urlBatches = CeilDiv(NumUrls(q.body), 3)

\* a request with more than 3 images and more than 3 urls has reached
\* synthesis after two batches of each
C6_Witness ==
  \E r \in Slots :
    LET q == reqs[r]
    IN /\ q.kind = "mood" /\ Called(q, "synthesize")
       /\ NumImages(q.body) > 3 /\ NumUrls(q.body) > 3
       /\ q.imgBatches = 2 /\ q.urlBatches = 2

\* how often item i of a list was given to the call of kind `op`
TimesCalled(q, op, i) ==
  Cardinality({k \in DOMAIN q.log : q.log[k].op = op /\ q.log[k].idx = i})

\* C7: nothing is retried: every image and every url is given to its
\* description call at most once, and synthesis is called exactly once when
\* validation passed and no image description failed, and never otherwise.
C7_NoRetry ==
  \A r \in Slots :
    LET q == reqs[r]
    IN q.kind = "mood"
       => /\ \A i \in DOMAIN q.imgCall : TimesCalled(q, "describeImage", i) <= 1
          /\ \A i \in DOMAIN q.urlCall : TimesCalled(q, "fetch", i) <= 1
          /\ Len(Calls(q, "synthesize")) <= 1
          /\ q.pc = "done" =>
               /\ Answered(q)
               /\ Len(Calls(q, "synthesize")) =
                    IF Status(q) = 400 \/ FailedImages(q) # {} THEN 0 ELSE 1

\* synthesis throws in a request that described images and urls
C7_Witness ==
  \E r \in Slots :
    LET q == reqs[r]
    IN /\ q.kind = "mood" /\ Answered(q)
       /\ q.sent[1] = ErrorResponse("synthesize")
       /\ NumImages(q.body) > 3 /\ FailedUrls(q) # {}

\* C8: a successful mood request that supplies a name saves the synthesized
\* text under it exactly once and answers with saved_as equal to the name; one
\* that supplies no name saves nothing and answers without saved_as.
C8_SavedAsMatchesSave ==
  \A r \in Slots :
    LET q == reqs[r]
    IN (q.kind = "mood" /\ Answered(q) /\ Status(q) = 200)
       => IF q.body.name # Undefined
            THEN /\ Len(Calls(q, "save")) = 1
                 /\ Calls(q, "save")[1].name = q.body.name
                 /\ Calls(q, "save")[1].embedding = q.sent[1].aesthetic_embedding
                 /\ q.sent[1].saved_as = q.body.name
            ELSE /\ ~Called(q, "save")
                 /\ q.sent[1].saved_as = Undefined

\* the records list() returns for a name
Listed(c, name) == {i \in DOMAIN listAesthetics(c) : listAesthetics(c)[i].name = name}

\* C9: the store never holds two records of one name, and after
\* save(name, b), also when it follows a save(name, a), there is exactly one
\* record of that name, it carries b, and list() shows it exactly once.
C9_OneRecordPerName ==
  \A n \in Names :
    /\ Cardinality(Listed(cache, n)) <= 1
    /\ lastSave[n] # Undefined =>
         /\ getAesthetic(cache, proto, n).t = "entry"
         /\ getAesthetic(cache, proto, n).entry.embedding = lastSave[n]
         /\ Cardinality(Listed(cache, n)) = 1
         /\ \A i \in Listed(cache, n) : listAesthetics(cache)[i].embedding = lastSave[n]

\* C10: after save(name, text), until the next save of that name,
\* get(name) returns a record with that name and exactly that text, whatever
\* else is saved or read in between.
C10_SaveGetRoundTrip ==
  /\ \A n \in Names :
       lastSave[n] # Undefined =>
         getAesthetic(cache, proto, n) =
           JsEntry(SavedEntry(n, lastSave[n], getAesthetic(cache, proto, n).entry.created))
  /\ \A r \in Slots :
       LET q == reqs[r]
       IN (q.kind = "get" /\ q.body.v \in Names /\ lastSave[q.body.v] # Undefined)
          => /\ q.sent[1].status = 200
             /\ q.sent[1].value.t = "entry"
             /\ q.sent[1].value.entry.name = q.body.v
             /\ q.sent[1].value.entry.embedding = lastSave[q.body.v]

\* a record loaded from the file is overwritten by a save whose file write
\* fails, and then read
C10_Witness ==
  \E r \in Slots :
    LET q == reqs[r]
    IN /\ q.kind = "get" /\ q.body.v = "x"
       /\ lastSave["x"] = "b"
       /\ file = JsonFile(<<[key |-> "x", value |-> SavedEntry("x", "a", 0)]>>)
       /\ Answered(q) /\ Status(q) = 200

\* C11: GET /api/aesthetic/:name answers 200 only with a record that is
\* stored under exactly that name, and 404 {error: "Not found"} for every
\* name under which no record is stored, built-in property names included.
C11_GetOnlySaved ==
  \A r \in Slots :
    LET q == reqs[r]
    IN (q.kind = "get" /\ Answered(q))
       => /\ Status(q) = 200 =>
               /\ q.sent[1].value.t = "entry"
               /\ q.sent[1].value.entry.name = q.body.v
               /\ Recorded(cache, proto, q.body.v)
          /\ ~Recorded(cache, proto, q.body.v) =>
               q.sent[1] = [status |-> 404, error |-> "Not found"]

\* C12: a transform-url request without a url, or with neither an inline
\* aesthetic nor an aesthetic name, is answered 400 at once: it fetches
\* nothing, calls no model and does not read the store.
C12_TransformUrlValidation ==
  \A r \in Slots :
    LET q == reqs[r]
    IN (/\ q.kind = "transformUrl"
        /\ \/ ~Truthy(q.body.url)
           \/ ~Truthy(q.body.aesthetic) /\ ~Truthy(q.body.aesthetic_name))
       => /\ q.pc = "done"
          /\ Len(q.sent) = 1 /\ Status(q) = 400
          /\ q.log = <<>>

\* requests rejected for each reason, on a store that holds a record
C12_Witness ==
  \E r \in Slots :
    LET q == reqs[r]
    IN /\ q.kind = "transformUrl" /\ Answered(q) /\ Status(q) = 400
       /\ Truthy(q.body.url) /\ q.body.aesthetic = "" /\ q.body.aesthetic_name = Undefined
       /\ cache # <<>>

\* C13: the aesthetic given to the rewrite call of a transform-url request
\* is the inline aesthetic when that is non-empty, and then the store is not
\* read; otherwise it is the embedding of the record stored under
\* aesthetic_name, and when there is no such record the request is answered
\* 404 and the rewrite call is not made.
C13_AestheticResolution ==
  \A r \in Slots :
    LET q == reqs[r]
        lookups == Calls(q, "getAesthetic")
        rewrites == Calls(q, "rewrite")
    IN (q.kind = "transformUrl" /\ (lookups # <<>> \/ rewrites # <<>>))
       => IF Truthy(q.body.aesthetic)
            THEN /\ lookups = <<>>
                 /\ rewrites[1].aesthetic = q.body.aesthetic
            ELSE /\ Len(lookups) = 1 /\ lookups[1].name = q.body.aesthetic_name
                 /\ IF lookups[1].result.t = "entry" /\ lookups[1].result.entry.name = lookups[1].name
                      THEN /\ Len(rewrites) = 1
                           /\ rewrites[1].aesthetic = lookups[1].result.entry.embedding
                      ELSE /\ rewrites = <<>>
                           /\ q.sent = <<[status |-> 404, error |-> "aesthetic_name not found"]>>

\* the records a file holds
FileRecords(f) == IF f.kind = "json" THEN {f.data[i].value : i \in DOMAIN f.data} ELSE {}

\* C14: a mood request whose save could not write the file is still
\* answered 200 with the synthesized text, the record is in the in-memory
\* store, so get(name) returns it, and the file does not hold it.
C14_WriteFailureTolerated ==
  \A r \in Slots :
    LET q == reqs[r]
        saves == Calls(q, "save")
    IN (q.kind = "mood" /\ saves # <<>> /\ saves[1].write # "ok")
       => /\ q.pc = "done"
          /\ q.sent = <<MoodResponse(q.body, saves[1].embedding)>>
          /\ Status(q) = 200 /\ q.sent[1].aesthetic_embedding = saves[1].embedding
          /\ getAesthetic(cache, proto, saves[1].name) =
               JsEntry(SavedEntry(saves[1].name, saves[1].embedding, clock - 1))
          /\ GetResponse(cache, proto, saves[1].name).status = 200
          /\ SavedEntry(saves[1].name, saves[1].embedding, clock - 1) \notin FileRecords(file)

\* a named mood request is answered while its write failed and left the
\* file with the older record of that name
C14_Witness ==
  \E r \in Slots :
    LET q == reqs[r]
    IN /\ q.kind = "mood" /\ Answered(q)
       /\ Calls(q, "save") # <<>>
       /\ Calls(q, "save")[1].write = "fail-untouched"
       /\ Calls(q, "save")[1].name = "x"
       /\ Calls(q, "save")[1].embedding = "b"
       /\ SavedEntry("x", "a", 0) \in FileRecords(file)

\* a record was saved under `name` by this process
SavedHere(n) == n \in Names /\ lastSave[n] # Undefined

RecordNames(c, p) == {n \in LookupNames : getAesthetic(c, p, n).t = "entry"}

\* C16: no step of the process removes a record: a name for which get
\* returns a record has one after every step, so the set of such names only
\* grows.
C16_NeverDeleted ==
  [][RecordNames(cache, proto) \subseteq RecordNames(cache', proto')]_vars

\* the record loaded from the file is still there after a save under
\* another name and a save under the prototype name
C16_Witness ==
  /\ RecordNames(cache, proto) = {"x", "constructor", ProtoName}
  /\ OwnValue(cache, "x").created = 0
  /\ \E r \in Slots : reqs[r].kind = "mood" /\ Answered(reqs[r])

\* slot r takes a mood request that has none of texts, images, urls
BareMoodArrives(r) ==
  /\ reqs'[r] # reqs[r]
  /\ reqs[r].pc \in {"idle", "done"}
  /\ reqs'[r].kind = "mood"
  /\ ~reqs'[r].body.texts.has /\ ~reqs'[r].body.images.has /\ ~reqs'[r].body.urls.has

\* C17: a mood request with none of texts, images and urls is answered 400
\* with an error message in the step in which it arrives; it calls nothing
\* and leaves the in-memory store and the file as they were.
C17_BareMoodRejected ==
  [][\A r \in Slots :
       BareMoodArrives(r)
       => /\ reqs'[r].pc = "done"
          /\ reqs'[r].sent = <<[status |-> 400, error |-> "Provide texts, images or urls."]>>
          /\ reqs'[r].log = <<>>
          /\ UNCHANGED <<cache, proto, file>>]_vars

\* the body {} has been rejected by a process whose store holds a record
C17_Witness ==
  \E r \in Slots :
    LET q == reqs[r]
    IN /\ q.kind = "mood" /\ Answered(q) /\ Status(q) = 400
       /\ ~q.body.texts.has /\ ~q.body.images.has /\ ~q.body.urls.has
       /\ q.body.name = Undefined
       /\ q.log = <<>>
       /\ cache # <<>>

\* C18: /api/transform answers 400 and calls nothing when html or aesthetic
\* is missing or empty; otherwise it makes the rewrite call exactly once,
\* with the html and the aesthetic of the body, and answers 200 with exactly
\* the text the call returned, or 500 with an error when the call failed.
C18_TransformContract ==
  \A r \in Slots :
    LET q == reqs[r]
        rewrites == Calls(q, "rewrite")
        results == Calls(q, "rewriteResult")
    IN q.kind = "transform"
       => IF \/ ~q.body.html.has \/ q.body.html.v.len = 0
             \/ q.body.aesthetic \in {Undefined, ""}
            THEN /\ q.pc = "done" /\ Len(q.sent) = 1 /\ Status(q) = 400
                 /\ q.log = <<>>
            ELSE /\ Len(rewrites) = 1
                 /\ rewrites[1].aesthetic = q.body.aesthetic
                 /\ rewrites[1].html = Slice(q.body.html.v, HtmlCap)
                 /\ q.pc \in {"rewrite", "done"}
                 /\ q.pc = "rewrite" => q.sent = <<>>
                 /\ q.pc = "done" =>
                      \/ /\ Len(results) = 1
                         /\ q.sent = <<[status |-> 200, html |-> results[1].value]>>
                      \/ /\ results = <<>>
                         /\ q.sent = <<ErrorResponse("rewrite")>>

\* a transform request got the rewritten page back
C18_Witness ==
  \E r \in Slots :
    LET q == reqs[r]
    IN /\ q.kind = "transform" /\ Answered(q) /\ Status(q) = 200
       /\ q.body.html.v.len > HtmlCap
       /\ q.sent[1].html = "<html>styled</html>"

\* the HTML documents a request has sent to the model: the document the
\* code held and the length of what it sent
HtmlSends(q) ==
  {[whole |-> q.html.len, sent |-> Calls(q, "rewrite")[k].html.len] :
     k \in DOMAIN Calls(q, "rewrite")}
  \cup {[whole |-> q.urlPage[i].len, sent |-> q.urlHtml[i].len] :
          i \in {j \in DOMAIN q.urlCall : q.urlCall[j] \in {"model", "ok", "blank"}}}

AllHtmlSends == UNION {HtmlSends(reqs[r]) : r \in Slots}

\* C19: there is one length cap for all HTML sent to the model: no document
\* is sent longer than the length to which another one was cut, so all cut
\* documents have the same length, whether sent by the rewrite call or by
\* describeUrl.
C19_OneHtmlCap ==
  \A s1 \in AllHtmlSends, s2 \in AllHtmlSends :
    /\ s1.sent <= s1.whole
    /\ s2.sent < s2.whole => s1.sent <= s2.sent

\* description calls in flight in the whole process
InFlight == UNION {({r} \X {"image"} \X InFlightImages(reqs[r]))
                     \cup ({r} \X {"url"} \X InFlightUrls(reqs[r])) : r \in Slots}

\* C20: at most 3 image/url description calls are in flight in the process
\* at any moment, whatever number of mood requests is being handled.
C20_ProcessWideLimit == Cardinality(InFlight) <= 3

\* the stage of the mood handler an operation belongs to
StageOf(op) ==
  CASE op = "describeImage" -> 1
    [] op = "fetch" -> 2
    [] op = "synthesize" -> 3
    [] op = "save" -> 4

\* C21: the stages of a mood request run in order: a url is given to
\* describeUrl only when every image has been issued and has returned,
\* synthesis is called only when every url call has returned, the save
\* follows the synthesis call, and the 200 response of a request that saves
\* is sent with the save done.
C21_StagesInOrder ==
  \A r \in Slots :
    LET q == reqs[r]
    IN q.kind = "mood"
       => /\ \A j, k \in DOMAIN q.log : j < k => StageOf(q.log[j].op) <= StageOf(q.log[k].op)
          /\ IssuedUrls(q) # {} => \A i \in DOMAIN q.imgCall : q.imgCall[i] = "ok"
          /\ Called(q, "synthesize") =>
               /\ \A i \in DOMAIN q.imgCall : q.imgCall[i] = "ok"
               /\ \A i \in DOMAIN q.urlCall : q.urlCall[i] \in {"ok", "blank", "failed"}
          /\ q.pc = "synth" => ~Called(q, "save") /\ q.sent = <<>>
          /\ Called(q, "save") => Called(q, "synthesize") /\ q.pc = "done"
          /\ (Answered(q) /\ Status(q) = 200) =>
               /\ Called(q, "synthesize")
               /\ MoodSaves(q.body) =>
                    /\ Called(q, "save")
                    /\ getAesthetic(cache, proto, q.body.name).t = "entry"

\* a request went through all four stages: two batches of images, urls,
\* synthesis, save
C21_Witness ==
  \E r \in Slots :
    LET q == reqs[r]
    IN /\ q.kind = "mood" /\ Answered(q) /\ Status(q) = 200
       /\ q.imgBatches = 2 /\ q.urlBatches >= 1
       /\ q.reordered
       /\ Called(q, "save")

\* the handler in slot r saves in this step
SavesNow(r) == Calls(reqs[r], "save") = <<>> /\ Calls(reqs'[r], "save") # <<>>

\* the two slots hold mood requests with one name, which both have saved
BothSaved(n) ==
  \A r \in Slots : /\ reqs[r].kind = "mood" /\ reqs[r].body.name = n
                   /\ Calls(reqs[r], "save") # <<>>

\* C22: with mood requests of one name overlapping, every save is atomic:
\* right after a request's save the record of the name is exactly the
\* record of that request, and at every moment the record carries the
\* embedding of the latest save, which is the embedding of one of the
\* requests; so the request that saves last leaves its record.
C22_LastSaveWins ==
  /\ [](\A n \in Names :
          /\ lastSave[n] # Undefined =>
               /\ getAesthetic(cache, proto, n).t = "entry"
               /\ getAesthetic(cache, proto, n).entry.name = n
               /\ getAesthetic(cache, proto, n).entry.embedding = lastSave[n]
          /\ BothSaved(n) =>
               \E r \in Slots :
                 getAesthetic(cache, proto, n).entry.embedding = Calls(reqs[r], "save")[1].embedding)
  /\ [][\A r \in Slots :
          SavesNow(r) =>
            LET save == Calls(reqs'[r], "save")[1]
            IN getAesthetic(cache', proto', save.name) =
                 JsEntry(SavedEntry(save.name, save.embedding, clock))]_vars

\* two requests of one name have both saved, and the record left is that of
\* the request that arrived first: its save ran last
C22_Witness ==
  /\ BothSaved("x")
  /\ \E r1, r2 \in Slots :
       /\ reqs[r1].arrived < reqs[r2].arrived
       /\ Calls(reqs[r1], "save")[1].embedding = "a"
       /\ Calls(reqs[r2], "save")[1].embedding = "b"
       /\ getAesthetic(cache, proto, "x").entry.embedding = "a"

\* C23: if every outbound call eventually returns or fails, every mood,
\* transform and transform-url request is eventually answered, and a request
\* never has more than one response: an answered request has exactly one,
\* with status 200, 400, 404 or 500.
C23_AnsweredOnce ==
  /\ [](\A r \in Slots :
          /\ Len(reqs[r].sent) <= 1
          /\ reqs[r].pc = "done" =>
               /\ Len(reqs[r].sent) = 1
               /\ reqs[r].sent[1].status \in {200, 400, 404, 500}
          /\ reqs[r].sent # <<>> => reqs[r].pc = "done")
  /\ \A r \in 1..1 : (reqs[r].pc \notin {"idle", "done"}) ~> (reqs[r].pc = "done")

\* a mood request that described an image and a url has its answer
C23_Witness ==
  \E r \in Slots :
    LET q == reqs[r]
    IN /\ q.kind = "mood" /\ Answered(q)
       /\ Called(q, "describeImage") /\ Called(q, "fetch") /\ Called(q, "synthesize")
       /\ q.arrived = 2

\* C24: an answered mood request has no image or url description call in
\* flight, whether it succeeded or failed.
C24_QuietWhenAnswered ==
  \A r \in Slots :
    LET q == reqs[r]
    IN (q.kind = "mood" /\ q.sent # <<>>) => Quiet(q)

\* C25: when a mood request is answered 200 with saved_as = n, the store
\* holds under n a record with the aesthetic_embedding of the response, and
\* GET /api/aesthetic/n would answer 200 with it.
C25_SavedAsIsStored ==
  \A r \in Slots :
    LET q == reqs[r]
    IN (q.kind = "mood" /\ Answered(q) /\ Status(q) = 200 /\ q.sent[1].saved_as # Undefined)
       => LET n == q.sent[1].saved_as
          IN /\ getAesthetic(cache, proto, n).t = "entry"
             /\ getAesthetic(cache, proto, n).entry.name = n
             /\ getAesthetic(cache, proto, n).entry.embedding = q.sent[1].aesthetic_embedding
             /\ GetResponse(cache, proto, n).status = 200

\* C26: the rewrite call never gets an empty or undefined aesthetic text,
\* from /api/transform or from /api/transform-url, whatever mood requests
\* have put into the store.
C26_AestheticNeverEmpty ==
  \A r \in Slots :
    LET q == reqs[r]
    IN \A k \in DOMAIN Calls(q, "rewrite") :
         /\ Calls(q, "rewrite")[k].aesthetic # Undefined
         /\ Calls(q, "rewrite")[k].aesthetic # ""

\* the record a request saved is in the in-memory store and in the file
KeptEverywhere(q) ==
  LET save == Calls(q, "save")[1]
  IN /\ getAesthetic(cache, proto, save.name).t = "entry"
     /\ getAesthetic(cache, proto, save.name).entry.embedding = save.embedding
     /\ \E i \in Listed(cache, save.name) : listAesthetics(cache)[i].embedding = save.embedding
     /\ \E e \in FileRecords(file) : e.name = save.name /\ e.embedding = save.embedding

\* C27: when two overlapping mood requests have saved under different
\* names, with both file writes succeeding, the in-memory store and the file
\* hold both records.
C27_DistinctNamesBothKept ==
  \A r1, r2 \in Slots :
    LET q1 == reqs[r1]
        q2 == reqs[r2]
    IN (/\ r1 # r2
        /\ q1.kind = "mood" /\ q2.kind = "mood"
        /\ Calls(q1, "save") # <<>> /\ Calls(q2, "save") # <<>>
        /\ Calls(q1, "save")[1].write = "ok" /\ Calls(q2, "save")[1].write = "ok"
        /\ q1.body.name # q2.body.name)
       => KeptEverywhere(q1) /\ KeptEverywhere(q2)

\* the records the in-memory store returns
StoreRecords(c, p) == {getAesthetic(c, p, n).entry : n \in RecordNames(c, p)}

\* C28: after a save whose file write succeeded the file holds exactly the
\* records of the in-memory store, those of earlier saves whose write
\* failed included; and the file never holds a record under a name under
\* which the in-memory store has none.
C28_FileMirrorsStore ==
  /\ \A r \in Slots :
       LET q == reqs[r]
       IN (q.kind = "mood" /\ Calls(q, "save") # <<>> /\ Calls(q, "save")[1].write = "ok")
          => FileRecords(file) = StoreRecords(cache, proto)
  /\ \A e \in FileRecords(file) : e.name \in RecordNames(cache, proto)

\* C29: the in-memory store and the file change only in the step in which
\* a mood request that carries a name gets its synthesis result and is
\* answered 200; no other step of a mood request and no step of
\* /api/transform, /api/transform-url, GET /api/aesthetics or
\* GET /api/aesthetic/:name changes them.
C29_OnlyNamedMoodWrites ==
  [][(cache' # cache \/ proto' # proto \/ file' # file)
       => \E r \in Slots :
            /\ reqs[r].kind = "mood" /\ reqs[r].pc = "synth"
            /\ reqs[r].body.name \notin {Undefined, ""}
            /\ reqs'[r].sent = <<MoodResponse(reqs[r].body, reqs'[r].sent[1].aesthetic_embedding)>>
            /\ reqs'[r].sent[1].status = 200
            /\ \A o \in Slots \ {r} : reqs'[o] = reqs[o]]_vars

\* a named mood request has failed at synthesis after another request, and
\* the store and the file are still as loaded at startup
C29_Witness ==
  /\ loaded.kind = "json" /\ file = loaded /\ cache = Parse(loaded) /\ proto = <<>>
  /\ \E r \in Slots :
       LET q == reqs[r]
       IN /\ q.kind = "mood" /\ q.body.name = "x"
          /\ q.sent = <<ErrorResponse("synthesize")>>
          /\ q.arrived = 2

\* C30: when no attempt is running and a preview id is set, the latest
\* attempt succeeded and the item stored under the id is the html it
\* returned; so after a failed attempt there is no preview id.
C30_PreviewIsLatest ==
  (~ui.loading /\ ui.previewId.has)
  => /\ ui.last.has /\ ui.last.v.ok
     /\ GetItem(ui.storage, ui.previewId.v) = Some(ui.last.v.html)

====
